---- MODULE Spec2Model ----
(***************************************************************************)
(* boot-splash (nixos/pkgs/boot-splash.c): early boot splash for an        *)
(* SSD1351 128x128 OLED on SPI0.0 with DC and RST on two GPIO lines.       *)
(* The main thread is modelled statement by statement (one step per        *)
(* system call); the signal handler is an asynchronous action.             *)
(*                                                                         *)
(* The two big arrays are kept by description: framebuf as the arguments   *)
(* of the draw_scanner call that last wrote all of it, a byte buffer handed*)
(* to spi_write as what it was built from. FrameOf and DataBytes give      *)
(* their contents, pixel by pixel and byte by byte, as the code computes   *)
(* them. An SPI transfer is recorded as the ioctl gets it: buffer, offset  *)
(* and length; Sent gives its bytes.                                       *)
(***************************************************************************)
EXTENDS Integers, Sequences, FiniteSets, TLC

(* ---------------- program constants ---------------- *)
WIDTH == 128
HEIGHT == 128
chunk_size == 4096
SCANNER_WIDTH == 20
SPEED == 4
BAND_ROWS == 4
MIN_INTENSITY == 8
MAX_INTENSITY == 31
COL_BLACK == 0
INIT_POS == 0
INIT_DIR == 1

(* ---------------- bounds of the model ---------------- *)
\* file descriptors range over 0..MaxFd
MaxFd == 7
\* payload lengths tried for spi_write on its own: every length within
\* MaxSlack bytes of a multiple q * chunk_size, q in 0..MaxChunks
MaxChunks == 4
MaxSlack == 12
\* number of emitted bar centers remembered (the newest last)
Window == 2
\* The count of frames drawn after a signal saturates here.
MaxTicks == 2

NPIX == WIDTH * HEIGHT
Byte(v) == v % 256
Abs(v) == IF v < 0 THEN -v ELSE v
\* The function f on 1..n as a sequence value.
AsSeq(f) == SubSeq(f, 1, Len(f))
\* Element i of a C array kept as a sequence (C indices start at 0).
At(arr, i) == arr[i + 1]

Handles == {"spi", "gpio", "dc", "rst"}
Signals == {"SIGTERM", "SIGINT"}

(* ---------------- build-time input: welcome_image.h ---------------- *)
\* Two builds of the generated image: a pseudo-random picture that has
\* non-black pixels and high bits set in every row, and an all-white one.
ImageNames == {"noise", "white"}
ImageNoise == AsSeq([k \in 1..NPIX |-> ((k - 1) * 40503 + 12345) % 65536])
ImageWhite == AsSeq([k \in 1..NPIX |-> 65535])
\* The array welcome_image[] of the build called name.
ImagePixels(name) == IF name = "noise" THEN ImageNoise ELSE ImageWhite

\* Descriptors already open when the process starts (stdin may be closed).
StdFdSets == {{0, 1, 2}, {1, 2}}

(* ---------------- panel calls ---------------- *)
\* A buffer given byte by byte, and the buffer ssd1351_flush builds from frame fb.
Lit(bs) == [src |-> "lit", bytes |-> bs]
BufOf(fb) == [src |-> "buf", frame |-> fb]
\* One call of ssd1351_cmd or ssd1351_data: the function called, the DC level
\* it selects and its buffer.
Cmd(c) == [fn |-> "cmd", dc |-> 0, data |-> Lit(<<c>>)]
Data(bs) == [fn |-> "data", dc |-> 1, data |-> Lit(bs)]

\* Variant: the display-off command of the init sequence sent as display-on.
InitOps_display_on ==
  << Cmd(253), Data(<<18>>),
     Cmd(253), Data(<<177>>),
     Cmd(175),
     Cmd(179), Data(<<241>>),
     Cmd(202), Data(<<127>>),
     Cmd(21), Data(<<0, 127>>),
     Cmd(117), Data(<<0, 127>>),
     Cmd(160), Data(<<116>>),
     Cmd(161), Data(<<0>>),
     Cmd(162), Data(<<0>>),
     Cmd(181), Data(<<0>>),
     Cmd(171), Data(<<1>>),
     Cmd(177), Data(<<50>>),
     Cmd(180), Data(<<160, 181, 85>>),
     Cmd(190), Data(<<5>>),
     Cmd(199), Data(<<15>>),
     Cmd(182), Data(<<1>>),
     Cmd(166),
     Cmd(193), Data(<<255, 255, 255>>) >>

\* Variant: the second pre-charge stage is set right after the first.
InitOps_precharge_together ==
  << Cmd(253), Data(<<18>>),
     Cmd(253), Data(<<177>>),
     Cmd(174),
     Cmd(179), Data(<<241>>),
     Cmd(202), Data(<<127>>),
     Cmd(21), Data(<<0, 127>>),
     Cmd(117), Data(<<0, 127>>),
     Cmd(160), Data(<<116>>),
     Cmd(161), Data(<<0>>),
     Cmd(162), Data(<<0>>),
     Cmd(181), Data(<<0>>),
     Cmd(171), Data(<<1>>),
     Cmd(177), Data(<<50>>),
     Cmd(182), Data(<<1>>),
     Cmd(180), Data(<<160, 181, 85>>),
     Cmd(190), Data(<<5>>),
     Cmd(199), Data(<<15>>),
     Cmd(166),
     Cmd(193), Data(<<255, 255, 255>>) >>

\* The body of ssd1351_init after the hardware reset, call by call.
InitOps ==
  << Cmd(253), Data(<<18>>),
     Cmd(253), Data(<<177>>),
     Cmd(174),
     Cmd(179), Data(<<241>>),
     Cmd(202), Data(<<127>>),
     Cmd(21), Data(<<0, 127>>),
     Cmd(117), Data(<<0, 127>>),
     Cmd(160), Data(<<116>>),
     Cmd(161), Data(<<0>>),
     Cmd(162), Data(<<0>>),
     Cmd(181), Data(<<0>>),
     Cmd(171), Data(<<1>>),
     Cmd(177), Data(<<50>>),
     Cmd(180), Data(<<160, 181, 85>>),
     Cmd(190), Data(<<5>>),
     Cmd(199), Data(<<15>>),
     Cmd(182), Data(<<1>>),
     Cmd(166),
     Cmd(193), Data(<<255, 255, 255>>) >>

DISPLAY_ON == 175
WRITE_RAM == 92

\* ssd1351_flush up to and including the write-RAM command.
FlushHeadOps ==
  << Cmd(21), Data(<<0, 127>>),
     Cmd(117), Data(<<0, 127>>),
     Cmd(WRITE_RAM) >>

\* The byte buffer ssd1351_flush builds from the frame buffer: high byte first.
\* Variant: low byte first.
FlushBuf_low_first(fb) ==
  AsSeq([k \in 1..(2 * NPIX) |->
           IF (k - 1) % 2 = 1 THEN Byte(At(fb, (k - 1) \div 2) \div 256)
                              ELSE Byte(At(fb, (k - 1) \div 2))])

\* buf[i * 2] = framebuf[i] >> 8; buf[i * 2 + 1] = framebuf[i] & 0xFF
FlushBuf(fb) ==
  AsSeq([k \in 1..(2 * NPIX) |->
           IF (k - 1) % 2 = 0 THEN Byte(At(fb, (k - 1) \div 2) \div 256)
                              ELSE Byte(At(fb, (k - 1) \div 2))])

(* ---------------- frame composition ---------------- *)
\* Variant: the gradient without its minimum brightness.
BarColor_no_floor(x, center, scanner_width) ==
  LET dist == Abs(x - center)
      intensity == MAX_INTENSITY - ((dist * MAX_INTENSITY) \div scanner_width)
  IN  IF dist < scanner_width THEN intensity % 32 ELSE COL_BLACK

\* Colour of band column x for a bar centred at center (draw_scanner's loop body).
BarColor(x, center, scanner_width) ==
  LET dist == Abs(x - center)
      raw == MAX_INTENSITY - ((dist * MAX_INTENSITY) \div scanner_width)
      intensity == IF raw < MIN_INTENSITY THEN MIN_INTENSITY ELSE raw
  IN  IF dist < scanner_width THEN intensity % 32 ELSE COL_BLACK

\* Variant: the band starts one row too low.
ComposeFrame_late_band(image, center, scanner_width) ==
  LET y_start == HEIGHT - BAND_ROWS
  IN  AsSeq([k \in 1..NPIX |->
               IF (k - 1) \div WIDTH > y_start
                 THEN BarColor((k - 1) % WIDTH, center, scanner_width)
                 ELSE At(image, k - 1)])

\* The frame draw_scanner leaves in framebuf: memcpy of the image, then the band.
ComposeFrame(image, center, scanner_width) ==
  LET y_start == HEIGHT - BAND_ROWS
  IN  AsSeq([k \in 1..NPIX |->
               IF (k - 1) \div WIDTH >= y_start
                 THEN BarColor((k - 1) % WIDTH, center, scanner_width)
                 ELSE At(image, k - 1)])

\* framebuf before any draw (static storage) and after draw_scanner(p, w).
ZeroFrame == [drawn |-> FALSE]
Drawn(name, p, w) == [drawn |-> TRUE, image |-> name, pos |-> p, scanner_width |-> w]

\* The pixels of the frame buffer fb.
FrameOf(fb) ==
  IF fb.drawn THEN ComposeFrame(ImagePixels(fb.image), fb.pos, fb.scanner_width)
              ELSE AsSeq([k \in 1..NPIX |-> 0])

\* A test payload of len bytes.
Payload(len) == AsSeq([k \in 1..len |-> (k * 7 + 3) % 256])

\* Length and bytes of a buffer.
DataLen(d) ==
  IF d.src = "lit" THEN Len(d.bytes)
  ELSE IF d.src = "buf" THEN 2 * NPIX
  ELSE d.len
DataBytes(d) ==
  IF d.src = "lit" THEN d.bytes
  ELSE IF d.src = "buf" THEN FlushBuf(FrameOf(d.frame))
  ELSE Payload(d.len)

\* The bytes of the recorded transfer t.
Sent(t) == SubSeq(DataBytes(t.data), t.off + 1, t.off + t.len)

(* ---------------- animation step ---------------- *)
\* Variant: the bar turns only once it has passed a bound.
Advance_strict(p, d) ==
  LET np == p + d * SPEED
      hi == WIDTH - (SCANNER_WIDTH \div 2)
      lo == SCANNER_WIDTH \div 2
  IN  IF np > hi THEN [pos |-> hi, dir |-> -1]
      ELSE IF np < lo THEN [pos |-> lo, dir |-> 1]
      ELSE [pos |-> np, dir |-> d]

\* Variant: the low bound flips the direction without clamping the center.
Advance_no_floor(p, d) ==
  LET np == p + d * SPEED
      hi == WIDTH - (SCANNER_WIDTH \div 2)
      lo == SCANNER_WIDTH \div 2
  IN  IF np >= hi THEN [pos |-> hi, dir |-> -1]
      ELSE IF np <= lo THEN [pos |-> np, dir |-> 1]
      ELSE [pos |-> np, dir |-> d]

\* Variant: at the high bound the bar turns only once it has passed it.
Advance_turns_late(p, d) ==
  LET np == p + d * SPEED
      hi == WIDTH - (SCANNER_WIDTH \div 2)
      lo == SCANNER_WIDTH \div 2
  IN  IF np > hi THEN [pos |-> hi, dir |-> -1]
      ELSE IF np <= lo THEN [pos |-> lo, dir |-> 1]
      ELSE [pos |-> np, dir |-> d]

\* pos += dir * 4 and the clamp-and-bounce that follows it.
Advance(p, d) ==
  LET np == p + d * SPEED
      hi == WIDTH - (SCANNER_WIDTH \div 2)
      lo == SCANNER_WIDTH \div 2
  IN  IF np >= hi THEN [pos |-> hi, dir |-> -1]
      ELSE IF np <= lo THEN [pos |-> lo, dir |-> 1]
      ELSE [pos |-> np, dir |-> d]

(* ---------------- descriptors ---------------- *)
\* open() and the line-request ioctl hand out the lowest free descriptor.
LowestFree(tab) ==
  CHOOSE n \in 0..MaxFd : tab[n] = "free" /\ \A m \in 0..(n - 1) : tab[m] # "free"

VARIABLES
  pc,            \* position of the main thread
  handlers,      \* signals whose handler is installed
  running,       \* volatile int running
  sig_at,        \* phase of main at the first delivery of a handled signal
  ticks_after,   \* calls of draw_scanner made after the first delivery (saturating)
  fdtab,         \* kernel descriptor table: fd -> owner
  spi_fd, gpio_fd, dc_req_fd, rst_req_fd,
  acquired,      \* handles whose acquisition succeeded
  closes,        \* per owner, how many close() calls hit its descriptor
  bad_closes,    \* close() calls on a descriptor that was not open
  dc_level, rst_level,  \* last level driven on each line (-1: never driven)
  ops,           \* panel calls still to make in the current function
  wstage,        \* where the current panel call stands: "none", "dc", "spi"
  tx_off, tx_len,\* spi_write: data pointer offset and remaining len
  wire,          \* SPI transfers in order, since the start of the process
                 \* or of the newest call of draw_scanner
  af_count,      \* display-on commands sent so far
  ram_seen,      \* a write-RAM command has been sent
  welcome_image, framebuf,
  pos, dir,      \* main's animation state
  centers,       \* newest emitted (pos, dir) pairs, at most Window of them
  sleep_cut,     \* a handler ran while the nanosleep in progress was blocked
  holds,         \* the reset levels held so far, each with whether its
                 \* msleep(10) lasted its full time
  hw_ret,        \* return value of hw_init (1: not returned yet)
  exit_status    \* -1 while the process runs

vars == << pc, handlers, running, sig_at, ticks_after, fdtab, spi_fd, gpio_fd,
           dc_req_fd, rst_req_fd, acquired, closes, bad_closes, dc_level,
           rst_level, ops, wstage, tx_off, tx_len, wire, af_count, ram_seen,
           welcome_image, framebuf, pos, dir, centers, sleep_cut, holds, hw_ret,
           exit_status >>

hwvars == << fdtab, spi_fd, gpio_fd, dc_req_fd, rst_req_fd, acquired, closes, bad_closes >>
sigvars == << handlers, running, sig_at, ticks_after >>
signalled == sig_at # "none"
panelvars == << dc_level, ops, wstage, tx_off, tx_len, wire, af_count, ram_seen >>
animvars == << framebuf, pos, dir, centers >>
sleepvars == << sleep_cut, holds >>

InitCommon ==
  /\ handlers = {}
  /\ running = 1
  /\ sig_at = "none"
  /\ ticks_after = 0
  /\ spi_fd = -1
  /\ gpio_fd = -1
  /\ dc_req_fd = 0
  /\ rst_req_fd = 0
  /\ acquired = {}
  /\ closes = [h \in Handles \cup {"std"} |-> 0]
  /\ bad_closes = 0
  /\ dc_level = -1
  /\ rst_level = -1
  /\ ops = << >>
  /\ wstage = "none"
  /\ tx_off = 0
  /\ tx_len = 0
  /\ wire = << >>
  /\ af_count = 0
  /\ ram_seen = FALSE
  /\ framebuf = ZeroFrame
  /\ pos = INIT_POS
  /\ dir = INIT_DIR
  /\ centers = << >>
  /\ sleep_cut = FALSE
  /\ holds = << >>
  /\ hw_ret = 1
  /\ exit_status = -1

Init ==
  /\ InitCommon
  /\ pc = "main_sigterm"
  /\ welcome_image \in ImageNames
  /\ \E std \in StdFdSets :
       fdtab = [n \in 0..MaxFd |-> IF n \in std THEN "std" ELSE "free"]

(* ---------------- system calls ---------------- *)
\* close(fd) on the kernel table st = [tab, closes, bad].
CloseFd(st, fd) ==
  IF fd \in 0..MaxFd /\ st.tab[fd] # "free"
    THEN [tab |-> [st.tab EXCEPT ![fd] = "free"],
          closes |-> [st.closes EXCEPT ![st.tab[fd]] = @ + 1],
          bad |-> st.bad]
    ELSE [st EXCEPT !.bad = @ + 1]

\* Variant: the line handle tested like a plain descriptor.
DcHeld_nonneg == dc_req_fd >= 0

\* Variant: the SPI descriptor tested like a line handle.
SpiHeld_positive == spi_fd > 0

\* The four guards of hw_cleanup.
DcHeld == dc_req_fd > 0
RstHeld == rst_req_fd > 0
GpioHeld == gpio_fd >= 0
SpiHeld == spi_fd >= 0

\* hw_cleanup: the kernel table after its four conditional closes, in order.
HwCleanup ==
  LET s0 == [tab |-> fdtab, closes |-> closes, bad |-> bad_closes]
      s1 == IF DcHeld THEN CloseFd(s0, dc_req_fd) ELSE s0
      s2 == IF RstHeld THEN CloseFd(s1, rst_req_fd) ELSE s1
      s3 == IF GpioHeld THEN CloseFd(s2, gpio_fd) ELSE s2
      s4 == IF SpiHeld THEN CloseFd(s3, spi_fd) ELSE s3
  IN  s4

\* The descriptor fd is open and belongs to handle h.
Owns(fd, h) == fd \in 0..MaxFd /\ fdtab[fd] = h

\* Variant: a full chunk is cut one byte short.
ThisLen_short(len) == IF len > chunk_size - 1 THEN chunk_size - 1 ELSE len

\* spi_write's this_len.
ThisLen(len) == IF len > chunk_size THEN chunk_size ELSE len

(* ---------------- main: signal(), hw_init ---------------- *)
InstallSigterm ==
  /\ pc = "main_sigterm"
  /\ handlers' = handlers \cup {"SIGTERM"}
  /\ pc' = "main_sigint"
  /\ UNCHANGED << running, sig_at, ticks_after, hwvars, panelvars, rst_level,
                  sleepvars, welcome_image, animvars, hw_ret, exit_status >>

InstallSigint ==
  /\ pc = "main_sigint"
  /\ handlers' = handlers \cup {"SIGINT"}
  /\ pc' = "hw_open_spi"
  /\ UNCHANGED << running, sig_at, ticks_after, hwvars, panelvars, rst_level,
                  sleepvars, welcome_image, animvars, hw_ret, exit_status >>

\* The phase of main a position belongs to ("tick": inside the flush of a tick).
Phase(p) ==
  IF p \in {"flush_head", "flush_data"} THEN "tick"
  ELSE IF p \in {"loop_test", "draw", "advance", "sleep", "display_on", "cleanup",
                 "main_fail"} THEN p
  ELSE IF p = "main_sigint" THEN "install" ELSE "hw_init"

\* The positions of main at a call of msleep.
SleepPcs == {"init_sleep_a", "init_sleep_b", "init_sleep_c", "sleep"}

\* A handler that runs while main is at position p, the nanosleep in progress
\* being cut or not (cut): at a call of msleep the signal may find the thread
\* blocked in nanosleep, which then returns early and is not called again, or
\* find it just before the call.
Interrupts(p, cut) == IF p \in SleepPcs THEN {cut, TRUE} ELSE {cut}

\* Variant: the handler leaves the flag alone.
SignalHandler_keeps_flag ==
  /\ pc # "exit"
  /\ \E sig \in Signals : sig \in handlers
  /\ sig_at' = IF signalled THEN sig_at ELSE Phase(pc)
  /\ sleep_cut' \in Interrupts(pc, sleep_cut)
  /\ UNCHANGED << pc, handlers, running, ticks_after, hwvars, panelvars, rst_level,
                  holds, welcome_image, animvars, hw_ret, exit_status >>

\* Variant: the handler flips the flag.
SignalHandler_flips_flag ==
  /\ pc # "exit"
  /\ \E sig \in Signals : sig \in handlers
  /\ running' = 1 - running
  /\ sig_at' = IF signalled THEN sig_at ELSE Phase(pc)
  /\ sleep_cut' \in Interrupts(pc, sleep_cut)
  /\ UNCHANGED << pc, handlers, ticks_after, hwvars, panelvars, rst_level,
                  holds, welcome_image, animvars, hw_ret, exit_status >>

\* signal_handler, run asynchronously while the process lives.
SignalHandler ==
  /\ pc # "exit"
  /\ \E sig \in Signals : sig \in handlers
  /\ running' = 0
  /\ sig_at' = IF signalled THEN sig_at ELSE Phase(pc)
  /\ sleep_cut' \in Interrupts(pc, sleep_cut)
  /\ UNCHANGED << pc, handlers, ticks_after, hwvars, panelvars, rst_level,
                  holds, welcome_image, animvars, hw_ret, exit_status >>

\* hw_init fails at the current step: return -1 to main.
HwInitFails ==
  /\ hw_ret' = -1
  /\ pc' = "main_fail"

OpenSpi ==
  /\ pc = "hw_open_spi"
  /\ \E ok \in BOOLEAN :
       IF ok
         THEN LET n == LowestFree(fdtab) IN
              /\ spi_fd' = n
              /\ fdtab' = [fdtab EXCEPT ![n] = "spi"]
              /\ acquired' = acquired \cup {"spi"}
              /\ pc' = "hw_open_gpio"
              /\ hw_ret' = hw_ret
         ELSE /\ spi_fd' = -1
              /\ HwInitFails
              /\ UNCHANGED << fdtab, acquired >>
  /\ UNCHANGED << sigvars, gpio_fd, dc_req_fd, rst_req_fd, closes, bad_closes,
                  panelvars, rst_level, sleepvars, welcome_image, animvars, exit_status >>

OpenGpio ==
  /\ pc = "hw_open_gpio"
  /\ \E ok \in BOOLEAN :
       IF ok
         THEN LET n == LowestFree(fdtab) IN
              /\ gpio_fd' = n
              /\ fdtab' = [fdtab EXCEPT ![n] = "gpio"]
              /\ acquired' = acquired \cup {"gpio"}
              /\ pc' = "hw_req_dc"
              /\ hw_ret' = hw_ret
         ELSE /\ gpio_fd' = -1
              /\ HwInitFails
              /\ UNCHANGED << fdtab, acquired >>
  /\ UNCHANGED << sigvars, spi_fd, dc_req_fd, rst_req_fd, closes, bad_closes,
                  panelvars, rst_level, sleepvars, welcome_image, animvars, exit_status >>

\* gpio_request_line(gpio_fd, GPIO_DC, &dc_req): *req is written on success only.
RequestDc ==
  /\ pc = "hw_req_dc"
  /\ \E ok \in BOOLEAN :
       IF ok
         THEN LET n == LowestFree(fdtab) IN
              /\ dc_req_fd' = n
              /\ fdtab' = [fdtab EXCEPT ![n] = "dc"]
              /\ acquired' = acquired \cup {"dc"}
              /\ pc' = "hw_req_rst"
              /\ hw_ret' = hw_ret
         ELSE /\ HwInitFails
              /\ UNCHANGED << dc_req_fd, fdtab, acquired >>
  /\ UNCHANGED << sigvars, spi_fd, gpio_fd, rst_req_fd, closes, bad_closes,
                  panelvars, rst_level, sleepvars, welcome_image, animvars, exit_status >>

\* Variant: a failed request of the RST line does not stop hw_init.
RequestRst_goes_on ==
  /\ pc = "hw_req_rst"
  /\ \E ok \in BOOLEAN :
       IF ok
         THEN LET n == LowestFree(fdtab) IN
              /\ rst_req_fd' = n
              /\ fdtab' = [fdtab EXCEPT ![n] = "rst"]
              /\ acquired' = acquired \cup {"rst"}
         ELSE UNCHANGED << rst_req_fd, fdtab, acquired >>
  /\ pc' = "init_rst_a"
  /\ UNCHANGED << sigvars, spi_fd, gpio_fd, dc_req_fd, closes, bad_closes,
                  panelvars, rst_level, sleepvars, welcome_image, animvars,
                  hw_ret, exit_status >>

RequestRst ==
  /\ pc = "hw_req_rst"
  /\ \E ok \in BOOLEAN :
       IF ok
         THEN LET n == LowestFree(fdtab) IN
              /\ rst_req_fd' = n
              /\ fdtab' = [fdtab EXCEPT ![n] = "rst"]
              /\ acquired' = acquired \cup {"rst"}
              /\ pc' = "init_rst_a"
              /\ hw_ret' = hw_ret
         ELSE /\ HwInitFails
              /\ UNCHANGED << rst_req_fd, fdtab, acquired >>
  /\ UNCHANGED << sigvars, spi_fd, gpio_fd, dc_req_fd, closes, bad_closes,
                  panelvars, rst_level, sleepvars, welcome_image, animvars, exit_status >>

(* ---------------- ssd1351_init: hardware reset ---------------- *)
\* The three gpio_set(&rst_req, v) calls: position -> level driven.
ResetLevel == [init_rst_a |-> 1, init_rst_b |-> 0, init_rst_c |-> 1]
ResetSleep == [init_rst_a |-> "init_sleep_a", init_rst_b |-> "init_sleep_b",
               init_rst_c |-> "init_sleep_c"]
AfterSleep == [init_sleep_a |-> "init_rst_b", init_sleep_b |-> "init_rst_c",
               init_sleep_c |-> "init_cmds", sleep |-> "loop_test"]

ResetSet ==
  /\ pc \in DOMAIN ResetLevel
  /\ rst_level' = IF Owns(rst_req_fd, "rst") THEN ResetLevel[pc] ELSE rst_level
  /\ pc' = ResetSleep[pc]
  /\ UNCHANGED << sigvars, hwvars, panelvars, sleepvars, welcome_image, animvars, hw_ret,
                  exit_status >>

\* msleep(10) of the reset, msleep(30) of the loop: nanosleep returns, after
\* its full time or early when a handler interrupted it.
MSleep ==
  /\ pc \in DOMAIN AfterSleep
  /\ pc' = AfterSleep[pc]
  /\ holds' = IF pc = "sleep" THEN holds
              ELSE Append(holds, [level |-> rst_level, full |-> ~sleep_cut])
  /\ sleep_cut' = FALSE
  /\ ops' = IF pc' = "init_cmds" THEN InitOps ELSE ops
  /\ wstage' = IF pc' = "init_cmds" THEN "dc" ELSE wstage
  /\ UNCHANGED << sigvars, hwvars, dc_level, tx_off, tx_len, wire, af_count,
                  ram_seen, rst_level, welcome_image, animvars, hw_ret, exit_status >>

(* ---------------- ssd1351_cmd / ssd1351_data / spi_write ---------------- *)
\* Where main continues when the last panel call of a position has returned.
AfterOps == [init_cmds |-> "display_on", display_on |-> "loop_test",
             flush_head |-> "flush_data", flush_data |-> "advance",
             spi_write |-> "spi_done"]

\* The panel calls a position starts with.
EnterOps(p) ==
  IF p = "display_on" THEN << Cmd(DISPLAY_ON) >>
  ELSE IF p = "flush_data" THEN << [fn |-> "data", dc |-> 1, data |-> BufOf(framebuf)] >>
  ELSE << >>

\* Variant: ssd1351_data leaves the DC line as it finds it.
PanelDc_data_keeps_level ==
  /\ pc \in DOMAIN AfterOps
  /\ wstage = "dc"
  /\ dc_level' = IF Owns(dc_req_fd, "dc") /\ Head(ops).fn = "cmd" THEN 0 ELSE dc_level
  /\ wstage' = "spi"
  /\ tx_off' = 0
  /\ tx_len' = DataLen(Head(ops).data)
  /\ UNCHANGED << pc, sigvars, hwvars, ops, wire, af_count, ram_seen, rst_level,
                  sleepvars, welcome_image, animvars, hw_ret, exit_status >>

\* gpio_set(&dc_req, level) at the head of ssd1351_cmd / ssd1351_data.
PanelDc ==
  /\ pc \in DOMAIN AfterOps
  /\ wstage = "dc"
  /\ dc_level' = IF Owns(dc_req_fd, "dc") THEN Head(ops).dc ELSE dc_level
  /\ wstage' = "spi"
  /\ tx_off' = 0
  /\ tx_len' = DataLen(Head(ops).data)
  /\ UNCHANGED << pc, sigvars, hwvars, ops, wire, af_count, ram_seen, rst_level,
                  sleepvars, welcome_image, animvars, hw_ret, exit_status >>

\* Variant: spi_write gives up once the flag is down.
SpiXfer_cancellable ==
  /\ pc \in DOMAIN AfterOps
  /\ wstage = "spi"
  /\ tx_len > 0
  /\ LET this_len == ThisLen(tx_len)
         tr == [fn |-> Head(ops).fn, dc |-> dc_level, data |-> Head(ops).data,
                off |-> tx_off, len |-> this_len]
         went == Owns(spi_fd, "spi") /\ running # 0
         iscmd == went /\ dc_level = 0
     IN  /\ wire' = IF went THEN Append(wire, tr) ELSE wire
         /\ af_count' = IF iscmd /\ Sent(tr) = << DISPLAY_ON >> THEN af_count + 1 ELSE af_count
         /\ ram_seen' = (ram_seen \/ (iscmd /\ Sent(tr) = << WRITE_RAM >>))
         /\ tx_off' = tx_off + this_len
         /\ tx_len' = IF running # 0 THEN tx_len - this_len ELSE 0
  /\ UNCHANGED << pc, sigvars, hwvars, dc_level, ops, wstage, rst_level,
                  sleepvars, welcome_image, animvars, hw_ret, exit_status >>

\* One pass of spi_write's loop: a single SPI_IOC_MESSAGE transfer.
SpiXfer ==
  /\ pc \in DOMAIN AfterOps
  /\ wstage = "spi"
  /\ tx_len > 0
  /\ LET this_len == ThisLen(tx_len)
         tr == [fn |-> Head(ops).fn, dc |-> dc_level, data |-> Head(ops).data,
                off |-> tx_off, len |-> this_len]
         went == Owns(spi_fd, "spi")
         iscmd == went /\ dc_level = 0
     IN  /\ wire' = IF went THEN Append(wire, tr) ELSE wire
         /\ af_count' = IF iscmd /\ Sent(tr) = << DISPLAY_ON >> THEN af_count + 1 ELSE af_count
         /\ ram_seen' = (ram_seen \/ (iscmd /\ Sent(tr) = << WRITE_RAM >>))
         /\ tx_off' = tx_off + this_len
         /\ tx_len' = tx_len - this_len
  /\ UNCHANGED << pc, sigvars, hwvars, dc_level, ops, wstage, rst_level,
                  sleepvars, welcome_image, animvars, hw_ret, exit_status >>

\* spi_write's loop test fails: the panel call returns; after the last call of
\* the position main moves on (hw_init returns 0 after ssd1351_init).
SpiReturn ==
  /\ pc \in DOMAIN AfterOps
  /\ wstage = "spi"
  /\ tx_len = 0
  /\ IF Len(ops) > 1
       THEN /\ ops' = Tail(ops)
            /\ wstage' = "dc"
            /\ UNCHANGED << pc, hw_ret >>
       ELSE /\ pc' = AfterOps[pc]
            /\ ops' = EnterOps(pc')
            /\ wstage' = IF ops' = << >> THEN "none" ELSE "dc"
            /\ hw_ret' = IF pc = "init_cmds" THEN 0 ELSE hw_ret
  /\ UNCHANGED << sigvars, hwvars, dc_level, tx_off, tx_len, wire, af_count,
                  ram_seen, rst_level, sleepvars, welcome_image, animvars, exit_status >>

(* ---------------- main: the animation loop ---------------- *)
\* centers with one more emission, trimmed to the newest Window entries.
Emit(log, p, d) ==
  LET all == Append(log, [pos |-> p, dir |-> d])
  IN  IF Len(all) > Window THEN SubSeq(all, Len(all) - Window + 1, Len(all)) ELSE all

\* Variant: the loop goes on whatever the flag says.
LoopTest_ignores_flag ==
  /\ pc = "loop_test"
  /\ pc' = "draw"
  /\ UNCHANGED << sigvars, hwvars, panelvars, rst_level, sleepvars, welcome_image, animvars,
                  hw_ret, exit_status >>

\* Variant: the body runs once before the flag is first read.
LoopTest_body_first ==
  /\ pc = "loop_test"
  /\ pc' = IF running # 0 \/ centers = << >> THEN "draw" ELSE "cleanup"
  /\ UNCHANGED << sigvars, hwvars, panelvars, rst_level, sleepvars, welcome_image,
                  animvars, hw_ret, exit_status >>

\* while (running)
LoopTest ==
  /\ pc = "loop_test"
  /\ pc' = IF running # 0 THEN "draw" ELSE "cleanup"
  /\ UNCHANGED << sigvars, hwvars, panelvars, rst_level, sleepvars, welcome_image, animvars,
                  hw_ret, exit_status >>

\* draw_scanner(pos, scanner_width) up to its call of ssd1351_flush.
DrawScanner ==
  /\ pc = "draw"
  /\ framebuf' = Drawn(welcome_image, pos, SCANNER_WIDTH)
  /\ centers' = Emit(centers, pos, dir)
  /\ ticks_after' = IF signalled /\ ticks_after < MaxTicks THEN ticks_after + 1
                    ELSE ticks_after
  /\ pc' = "flush_head"
  /\ ops' = FlushHeadOps
  /\ wstage' = "dc"
  /\ wire' = << >>
  /\ UNCHANGED << handlers, running, sig_at, hwvars, dc_level, tx_off, tx_len,
                  af_count, ram_seen, rst_level, sleepvars, welcome_image, pos, dir, hw_ret,
                  exit_status >>

AdvanceBar ==
  /\ pc = "advance"
  /\ pos' = Advance(pos, dir).pos
  /\ dir' = Advance(pos, dir).dir
  /\ pc' = "sleep"
  /\ UNCHANGED << sigvars, hwvars, panelvars, rst_level, sleepvars, welcome_image, framebuf,
                  centers, hw_ret, exit_status >>

(* ---------------- main: the two ways out ---------------- *)
RunCleanup ==
  /\ fdtab' = HwCleanup.tab
  /\ closes' = HwCleanup.closes
  /\ bad_closes' = HwCleanup.bad
  /\ pc' = "exit"
  /\ UNCHANGED << sigvars, spi_fd, gpio_fd, dc_req_fd, rst_req_fd, acquired,
                  panelvars, rst_level, sleepvars, welcome_image, animvars, hw_ret >>

\* Variant: the failure path returns 0.
MainFail_returns_zero ==
  /\ pc = "main_fail"
  /\ RunCleanup
  /\ exit_status' = 0

\* hw_init() < 0: hw_cleanup(); return 1
MainFail ==
  /\ pc = "main_fail"
  /\ RunCleanup
  /\ exit_status' = 1

\* the loop has ended: hw_cleanup(); return 0
MainDone ==
  /\ pc = "cleanup"
  /\ RunCleanup
  /\ exit_status' = 0

MainStep ==
  \/ InstallSigterm \/ InstallSigint
  \/ OpenSpi \/ OpenGpio \/ RequestDc \/ RequestRst
  \/ ResetSet \/ MSleep
  \/ PanelDc \/ SpiXfer \/ SpiReturn
  \/ LoopTest \/ DrawScanner \/ AdvanceBar
  \/ MainFail \/ MainDone

Next == MainStep \/ SignalHandler

Spec == Init /\ [][Next]_vars

\* Every blocking call of the main thread returns.
FairSpec == Spec /\ WF_vars(MainStep)

(* ---------------- draw_scanner and spi_write on their own ---------------- *)
\* The process after a successful hw_init and display-on, stopped at position p.
Opened(p) ==
  /\ pc = p
  /\ handlers = Signals
  /\ running = 1
  /\ sig_at = "none"
  /\ ticks_after = 0
  /\ fdtab = [n \in 0..MaxFd |->
                IF n \in {0, 1, 2} THEN "std"
                ELSE IF n = 3 THEN "spi" ELSE IF n = 4 THEN "gpio"
                ELSE IF n = 5 THEN "dc" ELSE IF n = 6 THEN "rst" ELSE "free"]
  /\ spi_fd = 3
  /\ gpio_fd = 4
  /\ dc_req_fd = 5
  /\ rst_req_fd = 6
  /\ acquired = Handles
  /\ closes = [h \in Handles \cup {"std"} |-> 0]
  /\ bad_closes = 0
  /\ rst_level = 1
  /\ wire = << >>
  /\ af_count = 1
  /\ ram_seen = FALSE
  /\ framebuf = ZeroFrame
  /\ centers = << >>
  /\ sleep_cut = FALSE
  /\ holds = << [level |-> 1, full |-> TRUE], [level |-> 0, full |-> TRUE],
                [level |-> 1, full |-> TRUE] >>
  /\ hw_ret = 0
  /\ exit_status = -1

\* draw_scanner(pos, 20) for every bar center on the panel.
InitFrame ==
  /\ Opened("draw")
  /\ welcome_image \in ImageNames
  /\ pos \in 0..(WIDTH - 1)
  /\ dir = INIT_DIR
  /\ dc_level = 0
  /\ ops = << >>
  /\ wstage = "none"
  /\ tx_off = 0
  /\ tx_len = 0

NextFrame == DrawScanner \/ PanelDc \/ SpiXfer \/ SpiReturn

\* draw_scanner, its flush included, up to its return.
SpecFrame == InitFrame /\ [][NextFrame]_vars

\* The payload lengths tried.
PayloadLens ==
  { q * chunk_size + r : q \in 0..MaxChunks, r \in (0 - MaxSlack)..MaxSlack } \cap Nat

\* spi_write(data, len) for every len in PayloadLens, entered at its loop.
InitSpi ==
  /\ Opened("spi_write")
  /\ welcome_image = "white"
  /\ pos = INIT_POS
  /\ dir = INIT_DIR
  /\ dc_level = 1
  /\ \E len \in PayloadLens :
       /\ ops = << [fn |-> "data", dc |-> 1, data |-> [src |-> "test", len |-> len]] >>
       /\ tx_len = len
  /\ wstage = "spi"
  /\ tx_off = 0

NextSpi == SpiXfer \/ SpiReturn

SpecSpi == InitSpi /\ [][NextSpi]_vars /\ WF_vars(NextSpi)

(* ---------------- hw_cleanup run twice ---------------- *)
\* hw_cleanup() called once more right after the call that ended main.
CleanupAgain ==
  /\ pc = "exit"
  /\ fdtab' = HwCleanup.tab
  /\ closes' = HwCleanup.closes
  /\ bad_closes' = HwCleanup.bad
  /\ pc' = "exit_again"
  /\ UNCHANGED << sigvars, spi_fd, gpio_fd, dc_req_fd, rst_req_fd, acquired,
                  panelvars, rst_level, sleepvars, welcome_image, animvars, hw_ret,
                  exit_status >>

NextCleanup == Next \/ CleanupAgain

\* The program, with hw_cleanup applied a second time to every state its
\* own call of hw_cleanup leaves.
SpecCleanup == Init /\ [][NextCleanup]_vars

(* ======================= properties ======================= *)

\* draw_scanner has just composed a frame and is about to flush it.
Composed == pc = "flush_head" /\ wstage = "dc" /\ Len(ops) = 5 /\ framebuf.drawn

\* What C1 says of the pixels frame composed over the pixels image for center c.
C1_Pixels(frame, image, c) ==
  /\ Len(frame) = 128 * 128
  /\ \A i \in 0..(128 * 128 - 1) :
       LET x == i % 128
           y == i \div 128
           d == IF x >= c THEN x - c ELSE c - x
           ramp == 31 - ((31 * d) \div 20)
       IN  IF y <= 123 THEN At(frame, i) = At(image, i)
           ELSE IF d >= 20 THEN At(frame, i) = 0
           ELSE At(frame, i) = (IF ramp > 8 THEN ramp ELSE 8)

\* C1: for a bar center in 10..118 (half-width 20) the composed frame equals
\* the background image on rows 0..123, and on rows 124..127 column x is black
\* when |x - center| >= 20 and max(8, 31 - (31 * |x - center|) div 20)
\* otherwise, no higher bit set.
C1_ComposedFrame ==
  (Composed /\ pos \in 10..118) =>
     C1_Pixels(FrameOf(framebuf), ImagePixels(welcome_image), pos)

\* A frame composed for center 64 over the noise image: the peak is at column
\* 64 of the last row, and row 123 still shows the image.
C1_Witness ==
  /\ Composed
  /\ pos = 64
  /\ welcome_image = "noise"
  /\ At(FrameOf(framebuf), 127 * 128 + 64) = 31
  /\ At(FrameOf(framebuf), 123 * 128 + 64) = At(ImageNoise, 123 * 128 + 64)

\* C2: the emitted bar centers form a triangle wave: the first is 0 heading up;
\* a center emitted heading up is followed by a greater one, one heading down
\* by a smaller one, 4 apart once inside [10, 118]; the direction turns to -1
\* exactly at 118 and to +1 exactly at 10; none exceeds 118 and none after the
\* first is below 10.
C2_TriangleWave ==
  LET n == Len(centers) IN
  /\ (n = 1 => centers[1] = [pos |-> 0, dir |-> 1])
  /\ \A k \in 1..n : centers[k].pos <= 118 /\ centers[k].pos >= 0
  /\ \A k \in 1..(n - 1) :
       LET a == centers[k]
           b == centers[k + 1]
       IN  /\ b.pos >= 10
           /\ (a.dir = 1 => b.pos > a.pos)
           /\ (a.dir = -1 => b.pos < a.pos)
           /\ (a.pos >= 10 => Abs(b.pos - a.pos) = 4)
           /\ (b.pos = 118 <=> (a.dir = 1 /\ b.dir = -1))
           /\ (b.pos = 10 <=> (b.dir = 1 /\ (a.dir = -1 \/ a.pos = 0)))

\* The bar has been emitted at 118 and then at 114: it has turned around.
C2_Witness ==
  LET n == Len(centers) IN
  /\ n >= 2
  /\ centers[n - 1] = [pos |-> 118, dir |-> -1]
  /\ centers[n] = [pos |-> 114, dir |-> -1]

\* The positions of main inside the animation loop.
LoopPcs == {"loop_test", "draw", "flush_head", "flush_data", "advance", "sleep"}

\* C3 as stated: in every state of the loop the center is in [10, 118] and the
\* direction is +1 or -1.
C3_Original ==
  pc \in LoopPcs => (pos \in 10..118 /\ dir \in {1, -1})

\* No advance of the bar has happened yet.
BeforeFirstAdvance ==
  \/ centers = << >>
  \/ Len(centers) = 1 /\ pc \in {"flush_head", "flush_data", "advance"}

\* C3 amended: the direction is +1 or -1 and the center is in [10, 118],
\* except until the first advance, where it is 0.
C3_Amended ==
  /\ dir \in {1, -1}
  /\ IF BeforeFirstAdvance THEN pos = 0 ELSE pos \in 10..118

\* The first advance has just been made: the center went from 0 to 10.
C3_Witness ==
  pc = "sleep" /\ Len(centers) = 1 /\ centers[1].pos = 0 /\ pos = 10 /\ dir = 1

\* ssd1351_flush has issued its last transfer and has not returned yet.
FlushDone == pc = "flush_data" /\ wstage = "spi" /\ tx_len = 0

RECURSIVE BytesFrom(_, _)
\* The bytes of the transfers w[a], w[a + 1], ... in order.
BytesFrom(w, a) == IF a > Len(w) THEN << >> ELSE Sent(w[a]) \o BytesFrom(w, a + 1)

\* What C4 says of the pixel bytes px sent for the pixels frame.
C4_PixelBytes(px, frame) ==
  /\ Len(px) = 32768
  /\ \A i \in 0..16383 :
       /\ At(px, 2 * i) = At(frame, i) \div 256
       /\ At(px, 2 * i + 1) = At(frame, i) % 256

\* C4: a finished flush has put on the wire command 0x15, data 0x00 0x7F,
\* command 0x75, data 0x00 0x7F, command 0x5C and then only data: 32768 bytes,
\* bytes 2i and 2i+1 being the high and the low byte of pixel i.
C4_FlushStream ==
  FlushDone =>
     /\ Len(wire) > 5
     /\ wire[1].dc = 0 /\ Sent(wire[1]) = << 21 >>
     /\ wire[2].dc = 1 /\ Sent(wire[2]) = << 0, 127 >>
     /\ wire[3].dc = 0 /\ Sent(wire[3]) = << 117 >>
     /\ wire[4].dc = 1 /\ Sent(wire[4]) = << 0, 127 >>
     /\ wire[5].dc = 0 /\ Sent(wire[5]) = << 92 >>
     /\ \A k \in 6..Len(wire) : wire[k].dc = 1
     /\ C4_PixelBytes(BytesFrom(wire, 6), FrameOf(framebuf))

\* A flush of a frame over the noise image, whose first pixel is 0x3039, has
\* finished: the first pixel bytes sent are 0x30 0x39.
C4_Witness ==
  /\ FlushDone
  /\ welcome_image = "noise"
  /\ At(FrameOf(framebuf), 0) = 12345
  /\ Len(wire) > 5
  /\ SubSeq(Sent(wire[6]), 1, 2) = << 48, 57 >>

\* spi_write's loop has ended and the call has not returned yet.
WriteDone == pc = "spi_write" /\ wstage = "spi" /\ tx_len = 0

\* What C5 says of a finished spi_write.
C5_Chunks ==
  WriteDone =>
     LET L == DataLen(Head(ops).data)
         n == Len(wire)
     IN  /\ n = (L + 4095) \div 4096
         /\ \A k \in 1..n :
              /\ wire[k].data = Head(ops).data
              /\ wire[k].off = 4096 * (k - 1)
              /\ wire[k].len >= 1 /\ wire[k].len <= 4096
              /\ Len(Sent(wire[k])) = wire[k].len
              /\ (k < n => wire[k].len = 4096)
              /\ (k = n => wire[k].len = IF L % 4096 = 0 THEN 4096 ELSE L % 4096)
         /\ BytesFrom(wire, 1) = DataBytes(Head(ops).data)

\* C5: spi_write of L bytes makes ceil(L / 4096) transfers in order, the k-th
\* at offset 4096 * (k - 1), all of length 4096 but the last, which has
\* L mod 4096 bytes (4096 when that is 0), together the payload with no gap
\* and no overlap; and the loop ends for every L.
C5_Chunking == [](C5_Chunks) /\ <>(pc = "spi_done")

\* A write of two full chunks and one byte has finished.
C5_Witness ==
  /\ WriteDone
  /\ DataLen(Head(ops).data) = 2 * 4096 + 1
  /\ Len(wire) = 3
  /\ wire[3].len = 1

\* C6: after a handled signal has been delivered, at most one further tick
\* (call of draw_scanner) is started before the loop exits.
C6_AtMostOneTick == ticks_after <= 1

\* A signal came during the sleep of a tick and the process has exited.
C6_Witness == sig_at = "sleep" /\ pc = "exit" /\ centers # << >>

\* C7: no descriptor other than an acquired handle's is ever closed, none is
\* closed twice, and at exit every acquired handle has been closed once.
C7_ClosedOnce ==
  /\ bad_closes = 0
  /\ closes["std"] = 0
  /\ \A h \in Handles :
       /\ closes[h] <= 1
       /\ (h \notin acquired => closes[h] = 0)
       /\ (pc = "exit" /\ h \in acquired => closes[h] = 1)

\* hw_init failed at the DC line request and the process has exited.
C7_Witness ==
  /\ pc = "exit"
  /\ acquired = {"spi", "gpio"}
  /\ closes["spi"] = 1 /\ closes["gpio"] = 1 /\ closes["dc"] = 0

\* C8: the exit status is 1 exactly when hw_init failed, and then the loop
\* never ran; otherwise it is 0; while the process runs there is none.
C8_ExitStatus ==
  IF pc = "exit"
    THEN /\ exit_status \in {0, 1}
         /\ (exit_status = 1 <=> acquired # Handles)
         /\ (exit_status = 1 <=> hw_ret = -1)
         /\ (exit_status = 1 => centers = << >> /\ af_count = 0 /\ ~ram_seen)
    ELSE exit_status = -1

\* A signal came during hw_init, hw_init succeeded, and the exit status is 0.
C8_Witness == pc = "exit" /\ exit_status = 0 /\ sig_at = "hw_init"

\* C9: once a handled signal has been delivered, the process eventually has
\* run hw_cleanup and exited.
C9_SignalShutsDown ==
  signalled ~> (pc = "exit" /\ \A h \in acquired : closes[h] = 1)

\* A signal came in the middle of a tick and the process has exited with 0.
C9_Witness == pc = "exit" /\ sig_at = "tick" /\ exit_status = 0 /\ closes["spi"] = 1

\* C10: display-on (0xAF) is sent at most once and exactly once in a run
\* whose hw_init succeeded; never before ssd1351_init has returned; right
\* after the 0xC1 command and its three parameter bytes; and before any
\* write-RAM command.
C10_DisplayOnOnce ==
  /\ af_count <= 1
  /\ (hw_ret # 0 => af_count = 0)
  /\ (ram_seen => af_count = 1)
  /\ (pc \in LoopPcs \cup {"cleanup"} => af_count = 1)
  /\ (pc = "exit" /\ exit_status = 0 => af_count = 1)
  /\ (af_count = 1 /\ centers = << >> =>
        LET n == Len(wire) IN
        /\ n >= 3
        /\ wire[n].dc = 0 /\ Sent(wire[n]) = << 175 >>
        /\ wire[n - 1].dc = 1 /\ Len(Sent(wire[n - 1])) = 3
        /\ wire[n - 2].dc = 0 /\ Sent(wire[n - 2]) = << 193 >>
        /\ \A k \in 1..(n - 1) : ~(wire[k].dc = 0 /\ Sent(wire[k]) = << 175 >>))

\* Display-on has been sent and a flush has sent its write-RAM command.
C10_Witness == af_count = 1 /\ ram_seen /\ pc = "flush_data"

\* The main thread is inside spi_write.
InSpiWrite == pc \in DOMAIN AfterOps /\ wstage = "spi"

\* C11: every SPI transfer goes out with the DC line low exactly when it is
\* the byte of a ssd1351_cmd call and high exactly when it carries bytes of a
\* ssd1351_data call; a command transfer is one byte, the whole of its
\* buffer; and all through spi_write, from before its first chunk to after
\* its last, the line is at the level of the call.
C11_DcFraming ==
  /\ \A k \in 1..Len(wire) :
       /\ wire[k].dc \in {0, 1}
       /\ wire[k].fn \in {"cmd", "data"}
       /\ (wire[k].dc = 0 <=> wire[k].fn = "cmd")
       /\ (wire[k].dc = 1 <=> wire[k].fn = "data")
       /\ (wire[k].fn = "cmd" =>
             wire[k].len = 1 /\ wire[k].off = 0 /\ DataLen(wire[k].data) = 1)
  /\ (InSpiWrite => dc_level = (IF Head(ops).fn = "cmd" THEN 0 ELSE 1))

\* The second chunk of a frame's pixel bytes has gone out with the line high,
\* after the write-RAM command went out with the line low.
C11_Witness ==
  /\ pc = "flush_data"
  /\ Len(wire) >= 7
  /\ wire[5].fn = "cmd" /\ wire[5].dc = 0
  /\ wire[7].fn = "data" /\ wire[7].dc = 1 /\ wire[7].off = 4096
\* ssd1351_init has returned and nothing has been sent since.
InitReturned == pc = "display_on" /\ wstage = "dc" /\ hw_ret = 0

\* What went out in the transfers w: the DC level and the bytes of each, and
\* the command bytes alone.
Stream(w) == AsSeq([k \in 1..Len(w) |-> << w[k].dc, Sent(w[k]) >>])
CommandsOf(w) ==
  LET cmds == SelectSeq(w, LAMBDA t : t.dc = 0)
  IN  AsSeq([k \in 1..Len(cmds) |-> Sent(cmds[k])[1]])

\* C12 as stated: the commands of ssd1351_init are, in this order and with no
\* other command in between, the two unlocks 0xFD, clock divider 0xB3, mux
\* ratio 0xCA, column window 0x15, row window 0x75, colour depth 0xA0, start
\* line 0xA1, display offset 0xA2, GPIO 0xB5, function select 0xAB, the two
\* pre-charge stages 0xB1 and 0xB6, segment low voltage 0xB4, VCOMH 0xBE,
\* master contrast 0xC7, normal display 0xA6, per-channel contrast 0xC1.
C12_Original ==
  InitReturned =>
     CommandsOf(wire) = << 253, 253, 179, 202, 21, 117, 160, 161, 162, 181, 171,
                           177, 182, 180, 190, 199, 166, 193 >>

\* C12 amended: after the reset (high, low, high) ssd1351_init has sent, each
\* command followed by its parameter bytes as data, 0xFD 12, 0xFD B1, display
\* off 0xAE, 0xB3 F1, 0xCA 7F, 0x15 00 7F, 0x75 00 7F, 0xA0 74, 0xA1 00,
\* 0xA2 00, 0xB5 00, 0xAB 01, first pre-charge 0xB1 32, 0xB4 A0 B5 55,
\* 0xBE 05, 0xC7 0F, second pre-charge 0xB6 01, 0xA6, 0xC1 FF FF FF, and
\* nothing else.
C12_Amended ==
  InitReturned =>
     /\ Len(holds) = 3
     /\ << holds[1].level, holds[2].level, holds[3].level >> = << 1, 0, 1 >>
     /\ Stream(wire) =
          << << 0, << 253 >> >>, << 1, << 18 >> >>,
             << 0, << 253 >> >>, << 1, << 177 >> >>,
             << 0, << 174 >> >>,
             << 0, << 179 >> >>, << 1, << 241 >> >>,
             << 0, << 202 >> >>, << 1, << 127 >> >>,
             << 0, << 21 >> >>, << 1, << 0, 127 >> >>,
             << 0, << 117 >> >>, << 1, << 0, 127 >> >>,
             << 0, << 160 >> >>, << 1, << 116 >> >>,
             << 0, << 161 >> >>, << 1, << 0 >> >>,
             << 0, << 162 >> >>, << 1, << 0 >> >>,
             << 0, << 181 >> >>, << 1, << 0 >> >>,
             << 0, << 171 >> >>, << 1, << 1 >> >>,
             << 0, << 177 >> >>, << 1, << 50 >> >>,
             << 0, << 180 >> >>, << 1, << 160, 181, 85 >> >>,
             << 0, << 190 >> >>, << 1, << 5 >> >>,
             << 0, << 199 >> >>, << 1, << 15 >> >>,
             << 0, << 182 >> >>, << 1, << 1 >> >>,
             << 0, << 166 >> >>,
             << 0, << 193 >> >>, << 1, << 255, 255, 255 >> >> >>

\* ssd1351_init has returned: 36 transfers went out, display off the fifth
\* and the second pre-charge stage after master contrast.
C12_Witness ==
  /\ InitReturned
  /\ Len(wire) = 36
  /\ Sent(wire[5]) = << 174 >>
  /\ Sent(wire[30]) = << 199 >> /\ Sent(wire[32]) = << 182 >>
\* What C13 says of the band of the pixels frame drawn for center c.
C13_Band(frame, c) ==
  LET lit == { x \in 0..127 : x - c < 20 /\ c - x < 20 }
      d(x) == IF x >= c THEN x - c ELSE c - x
  IN  \A y \in 124..127 :
        /\ \A x \in lit :
             LET v == At(frame, y * 128 + x) IN
             /\ v >= 8 /\ v <= 31
             /\ (v = 31 <=> d(x) = 0)
             /\ (d(x) = 19 => v = 8)
        /\ \A x1 \in lit : \A x2 \in lit :
             d(x1) <= d(x2) => At(frame, y * 128 + x1) >= At(frame, y * 128 + x2)
        /\ (c = 64 => \A x \in 0..127 : At(frame, y * 128 + x) # 0 <=> x \in 45..83)

\* C13: for half-width 20 and every bar center, the red value draw_scanner
\* writes to a column at distance d < 20 from the center is in 8..31, is 31
\* at d = 0 and nowhere else, is 8 at d = 19, and does not increase with d,
\* so columns at the same distance on either side get the same value; for
\* center 64 the lit columns are exactly 45..83.
C13_Gradient == Composed => C13_Band(FrameOf(framebuf), pos)

\* The frame for center 64: 30 on both sides of the peak, the floor 8 at
\* columns 45 and 83, black at 44 and 84.
C13_Witness ==
  /\ Composed
  /\ pos = 64
  /\ At(FrameOf(framebuf), 126 * 128 + 63) = 30
  /\ At(FrameOf(framebuf), 126 * 128 + 65) = 30
  /\ At(FrameOf(framebuf), 126 * 128 + 45) = 8
  /\ At(FrameOf(framebuf), 126 * 128 + 83) = 8
  /\ At(FrameOf(framebuf), 126 * 128 + 44) = 0
  /\ At(FrameOf(framebuf), 126 * 128 + 84) = 0
\* The bar has just been advanced from the center and direction emitted last.
Advanced == pc = "sleep" /\ centers # << >>

\* C14 as stated: the advance by 4 * direction turns the bar to -1, at 118,
\* only when the advanced center exceeds 118 and to +1, at 10, only when it
\* falls below 10; an advanced center within [10, 118], bounds included, is
\* kept, and the direction with it.
C14_Original ==
  Advanced =>
     LET a == centers[Len(centers)]
         np == a.pos + 4 * a.dir
     IN  /\ (np > 118 => pos = 118 /\ dir = -1)
         /\ (np < 10 => pos = 10 /\ dir = 1)
         /\ (np \in 10..118 => pos = np /\ dir = a.dir)

\* C14 amended: the direction is set to -1 and the center to 118 when the
\* advanced center is 118 or more, the direction to +1 and the center to 10
\* when it is 10 or less; an advanced center strictly between 10 and 118 is
\* kept, and the direction with it.
C14_Amended ==
  Advanced =>
     LET a == centers[Len(centers)]
         np == a.pos + 4 * a.dir
     IN  /\ (np >= 118 => pos = 118 /\ dir = -1)
         /\ (np <= 10 => pos = 10 /\ dir = 1)
         /\ (np \in 11..117 => pos = np /\ dir = a.dir)

\* The bar, heading up from 114, has been advanced to exactly 118 and turned.
C14_Witness ==
  /\ Advanced
  /\ centers[Len(centers)] = [pos |-> 114, dir |-> 1]
  /\ pos = 118 /\ dir = -1
RECURSIVE SumLen(_, _)
\* The number of bytes in the transfers w[a], w[a + 1], ...
SumLen(w, a) == IF a > Len(w) THEN 0 ELSE w[a].len + SumLen(w, a + 1)

\* The positions of main from the return of a flush to the exit.
PastFlushPcs == {"advance", "sleep", "loop_test", "cleanup", "exit"}

\* C15: while a flush is under way no handle has been closed, and once main
\* is past the flush (at the advance, the sleep, the read of the running
\* flag, hw_cleanup or the exit) the newest write-RAM command 0x5C is followed
\* by all 32768 pixel bytes of the frame buffer, in order and as data,
\* whether or not a signal came in the middle.
C15_FlushWhole ==
  /\ (pc \in {"flush_head", "flush_data"} =>
        Owns(spi_fd, "spi") /\ \A h \in Handles : closes[h] = 0)
  /\ (pc \in PastFlushPcs /\ ram_seen =>
        /\ Len(wire) > 5
        /\ wire[5].dc = 0 /\ Sent(wire[5]) = << 92 >>
        /\ \A k \in 6..Len(wire) :
             /\ wire[k].dc = 1
             /\ wire[k].data = BufOf(framebuf)
             /\ wire[k].off = 32768 - SumLen(wire, k)
        /\ SumLen(wire, 6) = 32768)

\* A signal came inside a flush; the flush went on to its last byte and the
\* loop has ended.
C15_Witness ==
  /\ pc = "cleanup"
  /\ sig_at = "tick"
  /\ running = 0
  /\ SumLen(wire, 6) = 32768
\* Everything the main thread owns: its position, the handles, the lines, the
\* transfers, the frame buffer and the animation state.
MainState ==
  << pc, handlers, hwvars, dc_level, rst_level, ops, wstage, tx_off, tx_len, wire,
     af_count, ram_seen, framebuf, pos, dir, centers, holds, hw_ret, exit_status >>

\* C16: the running flag starts at 1; a step that writes it sets it from 1 to
\* 0 and is a handler's, which touches nothing the main thread owns; so does
\* every other step that shows a handler ran (a first delivery, a sleep cut
\* short); once 0 the flag stays 0; and once main has left the loop, or read
\* the flag as 0, it starts no tick.
C16_FlagAndLoop ==
  /\ running = 1
  /\ [][ /\ (running' # running => running = 1 /\ running' = 0)
         /\ (running = 0 => running' = 0)
         /\ (running' # running \/ sig_at' # sig_at \/ (sleep_cut' /\ ~sleep_cut)
               => UNCHANGED MainState)
         /\ (pc \in {"cleanup", "main_fail", "exit"} => pc' \notin LoopPcs)
         /\ (pc = "loop_test" /\ running = 0 => pc' \in {"loop_test", "cleanup"})
       ]_vars

\* The handler has run in the middle of a flush, which goes on: the flag is
\* down and the third chunk of the frame is about to go out.
C16_Witness ==
  /\ running = 0
  /\ sig_at = "tick"
  /\ pc = "flush_data" /\ wstage = "spi" /\ tx_off = 2 * 4096
  /\ framebuf.drawn
\* The positions of main at or inside a gpio_set, an msleep of the reset or a
\* panel call.
IoPcs == {"init_rst_a", "init_rst_b", "init_rst_c", "init_sleep_a", "init_sleep_b",
          "init_sleep_c", "init_cmds", "display_on", "flush_head", "flush_data"}

\* C17: main is at a GPIO set or a panel call only with all four handles
\* acquired, their descriptors open and none closed; as long as a handle is
\* missing no line has been driven and nothing has been sent; the handles
\* are acquired in the order SPI, GPIO chip, DC, RST and a failed step ends
\* hw_init at once; a handle is closed only by the hw_cleanup that ends the
\* process.
C17_HandlesHeld ==
  /\ (pc \in IoPcs =>
        /\ acquired = Handles
        /\ Owns(spi_fd, "spi") /\ Owns(gpio_fd, "gpio")
        /\ Owns(dc_req_fd, "dc") /\ Owns(rst_req_fd, "rst")
        /\ \A h \in Handles : closes[h] = 0)
  /\ (acquired # Handles =>
        /\ rst_level = -1 /\ dc_level = -1
        /\ wire = << >> /\ holds = << >> /\ af_count = 0)
  /\ ("gpio" \in acquired => "spi" \in acquired)
  /\ ("dc" \in acquired => "gpio" \in acquired)
  /\ ("rst" \in acquired => "dc" \in acquired)
  /\ (hw_ret = -1 => pc \in {"main_fail", "exit"} /\ acquired # Handles)
  /\ ((\E h \in Handles : closes[h] > 0) => pc = "exit")

\* Opening the GPIO chip failed: the process has exited with the SPI device
\* closed, no line driven and nothing sent.
C17_Witness ==
  /\ pc = "exit"
  /\ hw_ret = -1
  /\ acquired = {"spi"}
  /\ closes["spi"] = 1
  /\ rst_level = -1 /\ dc_level = -1 /\ wire = << >>
\* C18: hw_cleanup, run with any of the sets of handles hw_init can leave
\* acquired, closes each acquired handle once and nothing else; run again
\* right afterwards it closes nothing: every count is as it was, no
\* descriptor of the process is lost, no handle is closed twice.
C18_Idempotent ==
  /\ (pc = "exit" => bad_closes = 0)
  /\ (pc \in {"exit", "exit_again"} =>
        /\ \A h \in Handles : closes[h] = (IF h \in acquired THEN 1 ELSE 0)
        /\ closes["std"] = 0
        /\ \A n \in 0..MaxFd : fdtab[n] \in {"std", "free"})

\* hw_cleanup has run twice with all four handles acquired.
C18_Witness ==
  /\ pc = "exit_again"
  /\ acquired = Handles
  /\ \A h \in Handles : closes[h] = 1
\* C19 as stated: the reset line is driven high, then low, then high, each
\* level is held for the full time of its msleep(10) before the next level
\* change or the first command, also when a signal is delivered meanwhile,
\* and no command goes out before the third hold is over.
C19_ResetHolds ==
  /\ Len(holds) <= 3
  /\ \A k \in 1..Len(holds) :
       /\ holds[k].level = << 1, 0, 1 >>[k]
       /\ holds[k].full
  /\ (wire # << >> => Len(holds) = 3)
\* The first delivery came after a handler was installed and before the loop.
SignalBeforeLoop == sig_at \in {"install", "hw_init", "display_on"}

\* C20: when the first signal comes after a handler is installed and before
\* the loop first reads the flag, the loop body is never entered (the first
\* call of draw_scanner is reached only with no delivery before that read),
\* and if hw_init succeeds the process exits with status 0 having sent the
\* whole init sequence and then display-on 0xAF as its last transfer, with
\* no frame composed, no write-RAM command sent and all four handles closed.
C20_EarlySignal ==
  /\ (pc = "draw" /\ centers = << >> => sig_at \in {"none", "draw"})
  /\ (SignalBeforeLoop => pc \notin {"draw", "flush_head", "flush_data", "advance", "sleep"})
  /\ (pc = "exit" /\ hw_ret = 0
        /\ (SignalBeforeLoop \/ (sig_at = "loop_test" /\ centers = << >>)) =>
        /\ af_count = 1
        /\ Len(wire) = 37
        /\ Sent(wire[1]) = << 253 >>
        /\ Sent(wire[36]) = << 255, 255, 255 >>
        /\ wire[37].dc = 0 /\ Sent(wire[37]) = << 175 >>
        /\ centers = << >> /\ ticks_after = 0
        /\ ~framebuf.drawn /\ ~ram_seen
        /\ exit_status = 0
        /\ \A h \in Handles : closes[h] = 1)

\* A signal came while display-on was being sent; the process has exited
\* with status 0 without a frame.
C20_Witness ==
  /\ pc = "exit"
  /\ sig_at = "display_on"
  /\ af_count = 1
  /\ centers = << >>
  /\ exit_status = 0
  /\ closes["rst"] = 1
====
